---- MODULE Spec2Model ----
(***************************************************************************)
(* Model of win-foreground-listener (src/src/lib.rs).                      *)
(*                                                                         *)
(* One WindowForegroundListener owns an Option<JoinHandle>.  start/stop     *)
(* run on the host (JavaScript) thread.  Each start spawns a tokio task     *)
(* (listen) that registers a WinEvent hook, drains an unbounded mpsc        *)
(* channel of events and, for each window event, calls JsCallback::call,   *)
(* which queues a closure on the host's event queue (neon Channel) and      *)
(* awaits a oneshot reply.                                                  *)
(*                                                                         *)
(* Tasks run on the multi-threaded tokio runtime, so a task advances        *)
(* concurrently with the host thread.  JoinHandle::abort only marks the     *)
(* task.  A task that is parked at an await is not polled again; a task     *)
(* that a worker is polling at that moment runs on to its next pending      *)
(* await.  In both cases the runtime drops the future afterwards, on a      *)
(* worker thread (Cancel), and with it the hook, the event receiver and     *)
(* the oneshot receiver the future holds.                                   *)
(***************************************************************************)
EXTENDS Integers, Sequences, FiniteSets, TLC

\* ------------------------------------------------------------------ bounds
MaxTasks == 2       \* start calls explored
MaxEvents == 2      \* records the native streams deliver in all
MaxOffset == 9      \* handles explored on each side of the sign boundary

\* ------------------------------------------------------- program constants
PtrBits == 64       \* width of isize (lib.rs:119, `as isize`; x86_64)
\* a pointer is held as its bits, most significant first, in limbs of
\* LimbBits bits: values of PtrBits bits do not fit the checker's integers
LimbBits == 16
LimbBase == 2 ^ LimbBits
Limbs == PtrBits \div LimbBits

\* the pointer whose value is n, for n below LimbBase squared
Ptr(n) ==
    [i \in 1..Limbs |->
        IF i = Limbs THEN n % LimbBase
        ELSE IF i = Limbs - 1 THEN n \div LimbBase ELSE 0]

\* the pointer n above the lowest one whose top bit is set
HighPtr(n) == [Ptr(n) EXCEPT ![1] = LimbBase \div 2]

Tasks == 1..MaxTasks
NoTask == 0         \* join_handle: None
NoPid == 0          \* EventFilter without process restriction
NoHandle == Ptr(0)  \* WindowEvent::window_handle() == None (null pointer)
NoChan == 0         \* a task that is not inside JsCallback::call
NoResult == [ok |-> FALSE, value |-> "none"]
NoFilter == [event |-> "none", process |-> NoPid]

Pids == {0, 7}
\* raw HWND values: a small one, and one whose top bit is set
Handles == {Ptr(12345), HighPtr(1)}
Tags == {"Window", "Caret"}
Rec(tag, handle) == [tag |-> tag, handle |-> handle]
\* the records the native stream delivers in the explored runs
Records ==
    {Rec("Window", Ptr(12345)), Rec("Window", NoHandle),
     Rec("Caret", Ptr(12345))}
\* what the host's callback may do when it runs
Outcomes == {"string", "throw", "nonstring"}
Replies == {"ack"}

VARIABLES
    join_handle,    \* WindowForegroundListener.join_handle: NoTask or a task
    spawned,        \* tasks spawned so far (task ids are 1..spawned)
    lastOp,         \* last lifecycle call on the listener
    pc,             \* per task: the await point it is at
    aborted,        \* per task: JoinHandle::abort was called on it
    inPoll,         \* per task: abort found it inside a poll, which it
                    \*   has not left yet
    failure,        \* per task: the unwrap() that panicked, if any
    pid,            \* per task: the pid its future holds until the filter
                    \*   is built from it
    hook,           \* per task: its WindowEventHook: "none", "active",
                    \*   "released" (unhook succeeded) or "dropped" (the
                    \*   value was dropped with no unhook call)
    registered,     \* the EventFilter last passed to WindowEventHook::hook
    unhooks,        \* per task: calls of hook.unhook()
    event_rx,       \* per task: records waiting in its mpsc channel
    closed,         \* per task: every event_tx has been dropped
    delivered,      \* per task: every record its stream has delivered
    submitted,      \* per task: the arguments given to try_send, in order
    sent,           \* records delivered by all streams so far
    call,           \* per task: the oneshot channel its pending call awaits
    results,        \* per task: what its last JsCallback::call returned
    chans,          \* the oneshot channels created, in creation order
    hostQueue,      \* closures sent to the neon Channel, not yet run
    invocations     \* callback invocations the host has made

vars == <<join_handle, spawned, lastOp, pc, aborted, inPoll, failure, pid, hook,
          registered, unhooks, event_rx, closed, delivered, submitted, sent, call, results, chans,
          hostQueue, invocations>>

lifecycleVars == <<join_handle, spawned, lastOp>>
hookVars == <<hook, registered, unhooks>>
streamVars == <<event_rx, closed, delivered, sent>>
taskVars == <<pc, inPoll, failure, pid, call, submitted, results>>
hostVars == <<chans, hostQueue, invocations>>

\* ---------------------------------------------------------- pure functions

\* the top bit of the pointer is set
TopBit(h) == h[1] >= LimbBase \div 2

\* every bit flipped
Complement(h) == [i \in 1..Len(h) |-> LimbBase - 1 - h[i]]

\* one more, wrapping at the width
RECURSIVE Increment(_)
Increment(h) ==
    IF h = <<>> THEN <<>>
    ELSE IF h[Len(h)] + 1 < LimbBase THEN [h EXCEPT ![Len(h)] = @ + 1]
    ELSE Increment(SubSeq(h, 1, Len(h) - 1)) \o <<0>>

\* a cast that keeps the pointer's bits unsigned (`as usize`)
AsUsize(h) == [neg |-> FALSE, mag |-> h]

\* `ptr as isize`: the pointer's bits read as a two's-complement integer,
\* given as its sign and its magnitude
AsIsize(h) ==
    IF TopBit(h) THEN [neg |-> TRUE, mag |-> Increment(Complement(h))]
    ELSE [neg |-> FALSE, mag |-> h]

Digit(d) ==
    CASE d = 0 -> "0" [] d = 1 -> "1" [] d = 2 -> "2" [] d = 3 -> "3"
      [] d = 4 -> "4" [] d = 5 -> "5" [] d = 6 -> "6" [] d = 7 -> "7"
      [] d = 8 -> "8" [] d = 9 -> "9"

\* m divided by ten, limb by limb, with r carried in from the left; the
\* division of the limbs to the right is bound by a set, so that it is
\* computed once
RECURSIVE DivTen(_, _)
DivTen(m, r) ==
    IF m = <<>> THEN [q |-> <<>>, r |-> r]
    ELSE CHOOSE d \in {[q |-> <<(r * LimbBase + Head(m)) \div 10>> \o rest.q,
                         r |-> rest.r] :
                           rest \in {DivTen(Tail(m),
                                            (r * LimbBase + Head(m)) % 10)}} :
             TRUE

IsZero(m) == \A i \in 1..Len(m) : m[i] = 0

\* the decimal digits of a magnitude: those of m divided by ten, then the
\* remainder
RECURSIVE Decimal(_)
Decimal(m) ==
    CHOOSE s \in {IF IsZero(d.q) THEN Digit(d.r)
                  ELSE Decimal(d.q) \o Digit(d.r) : d \in {DivTen(m, 0)}} :
        TRUE

\* format!("{}", i) of an isize
FormatIsize(i) == IF i.neg THEN "-" \o Decimal(i.mag) ELSE Decimal(i.mag)

\* the callback argument of one record (lib.rs:115-120)
WindowId(rec) == FormatIsize(AsIsize(rec.handle))

IsWindow(rec) == rec.tag = "Window"

\* a filter that never restricts the process
BuildFilterUnscoped(p) == [event |-> "SYSTEM_FOREGROUND", process |-> NoPid]

\* EventFilter::default().event(SYSTEM_FOREGROUND), plus .process(pid) when
\* NonZeroU32::new(pid) is Some
BuildFilter(p) ==
    [event |-> "SYSTEM_FOREGROUND", process |-> IF p # 0 THEN p ELSE NoPid]

\* the identifiers of the window records of a sequence of records, in order
RECURSIVE WindowIds(_)
WindowIds(rs) ==
    IF rs = <<>> THEN <<>>
    ELSE IF IsWindow(Head(rs)) THEN <<WindowId(Head(rs))>> \o WindowIds(Tail(rs))
    ELSE WindowIds(Tail(rs))

\* ------------------------------------------------------------- task states
\* where the future of a task stands: "Registering" before its first poll
\* has called WindowEventHook::hook, then at one of its awaits
Suspended ==
    {"Registering", "AwaitHook", "Listening", "AwaitReply", "Unregistering"}
Finished == {"Terminated", "Cancelled"}

\* a runtime that goes on polling a task after abort, wherever it stood
CanRunAborted(t) == pc[t] \in Suspended

\* the runtime polls the task: JoinHandle::abort only sets a flag, so a task
\* that a worker is polling when abort is called runs on to its next pending
\* await; a task that is parked is not polled again
CanRun(t) == pc[t] \in Suspended /\ (~aborted[t] \/ inPoll[t])

\* --------------------------------------------------------------- initially
Init ==
    /\ join_handle = NoTask
    /\ spawned = 0
    /\ lastOp = "new"
    /\ pc = [t \in Tasks |-> "Unspawned"]
    /\ aborted = [t \in Tasks |-> FALSE]
    /\ inPoll = [t \in Tasks |-> FALSE]
    /\ failure = [t \in Tasks |-> "none"]
    /\ pid = [t \in Tasks |-> 0]
    /\ hook = [t \in Tasks |-> "none"]
    /\ registered = NoFilter
    /\ unhooks = [t \in Tasks |-> 0]
    /\ event_rx = [t \in Tasks |-> <<>>]
    /\ closed = [t \in Tasks |-> FALSE]
    /\ delivered = [t \in Tasks |-> <<>>]
    /\ submitted = [t \in Tasks |-> <<>>]
    /\ sent = 0
    /\ call = [t \in Tasks |-> NoChan]
    /\ results = [t \in Tasks |-> NoResult]
    /\ chans = <<>>
    /\ hostQueue = <<>>
    /\ invocations = 0

\* ------------------------------------------------- Listener Lifecycle (host)

\* a start that spawns without stopping the task it replaces
AbortNothing(ab, jh) == ab

\* JoinHandle::abort() on the Option's task, if any: marks the task
Abort(ab, jh) == IF jh = NoTask THEN ab ELSE [ab EXCEPT ![jh] = TRUE]

\* abort finds the task inside a poll (mid) or parked
MidPoll(ip, jh, mid) ==
    IF jh # NoTask /\ pc[jh] \in Suspended THEN [ip EXCEPT ![jh] = mid]
    ELSE ip

\* the Option<JoinHandle> that stop leaves behind
StopHandle(jh) == NoTask

\* a stop that joins the task and unwraps its result: it waits for a task
\* that still runs and fails on one that panicked
AbortJoins(jh) ==
    IF jh = NoTask THEN TRUE ELSE pc[jh] \in Finished /\ failure[jh] = "none"

\* a stop that unwraps the Option: it fails when there is no task
AbortUnwraps(jh) == jh # NoTask

\* a stop that insists on a task that is still running
AbortChecksLive(jh) == IF jh = NoTask THEN TRUE ELSE pc[jh] \in Suspended

\* stop returns: the match has an arm for None, and JoinHandle::abort neither
\* waits for the task nor returns a Result (lib.rs:44-51)
StopReturns(jh) == TRUE

\* WindowForegroundListener::stop
Stop ==
    /\ StopReturns(join_handle)
    /\ aborted' = Abort(aborted, join_handle)
    /\ \E mid \in BOOLEAN : inPoll' = MidPoll(inPoll, join_handle, mid)
    /\ join_handle' = StopHandle(join_handle)
    /\ lastOp' = "stop"
    /\ UNCHANGED <<spawned, pc, failure, pid, call, submitted, results,
                   hookVars, streamVars, hostVars>>

\* WindowForegroundListener::start: stop(), then listen() spawns the task,
\* whose future captures pid and the callback
Start(p) ==
    /\ spawned < MaxTasks
    /\ StopReturns(join_handle)
    /\ LET t == spawned + 1 IN
        /\ aborted' = Abort(aborted, join_handle)
        /\ spawned' = t
        /\ pc' = [pc EXCEPT ![t] = "Registering"]
        /\ pid' = [pid EXCEPT ![t] = p]
        /\ join_handle' = t
    /\ \E mid \in BOOLEAN : inPoll' = MidPoll(inPoll, join_handle, mid)
    /\ lastOp' = "start"
    /\ UNCHANGED <<failure, call, submitted, results, hookVars, streamVars,
                   hostVars>>

\* ------------------------------------------------------- Subscription Task

\* a oneshot channel whose two halves are both gone
Gone == [arg |-> "", fate |-> "gone", tx |-> "dropped", value |-> "",
         rx |-> "dropped"]

\* a channel is freed once both halves are gone; the table of channels ends
\* at the last one still in use
RECURSIVE Trim(_)
Trim(cs) ==
    IF cs # <<>> /\ cs[Len(cs)] = Gone THEN Trim(SubSeq(cs, 1, Len(cs) - 1))
    ELSE cs

Freed(cs, c, ch) ==
    Trim([cs EXCEPT ![c] = IF ch.rx # "waiting" /\ ch.tx # "alive" THEN Gone
                           ELSE ch])

\* the receiver half of the pending call is dropped with the future
DropRx(cs, c) ==
    IF c = NoChan THEN cs ELSE Freed(cs, c, [cs[c] EXCEPT !.rx = "dropped"])

\* what the future captured and what the loop holds goes with the future,
\* the records still waiting in event_rx included; what the stream has
\* delivered and what was given to try_send has happened and stays
DropLocals(t) ==
    /\ pid' = [pid EXCEPT ![t] = 0]
    /\ event_rx' = [event_rx EXCEPT ![t] = <<>>]
    /\ closed' = [closed EXCEPT ![t] = FALSE]
    /\ UNCHANGED <<delivered, submitted>>
    /\ results' = [results EXCEPT ![t] = NoResult]
    /\ inPoll' = [inPoll EXCEPT ![t] = FALSE]

\* the task's future is dropped (it returned, panicked or was cancelled):
\* everything it captured or owned goes with it
DropFuture(t) ==
    /\ DropLocals(t)
    /\ chans' = DropRx(chans, call[t])
    /\ call' = [call EXCEPT ![t] = NoChan]

\* lib.rs:104-111: the first poll creates the mpsc channel, builds the filter
\* from pid and calls WindowEventHook::hook(filter, event_tx)
CallHook(t) ==
    /\ pc[t] = "Registering" /\ CanRun(t)
    /\ registered' = BuildFilter(pid[t])
    /\ pid' = [pid EXCEPT ![t] = 0]
    /\ pc' = [pc EXCEPT ![t] = "AwaitHook"]
    /\ UNCHANGED <<lifecycleVars, aborted, inPoll, failure, call, submitted,
                   results, hook, unhooks, streamVars, hostVars>>

\* lib.rs:111: hook(..).await resolves and unwrap() takes the hook, or panics
Register(t, ok) ==
    /\ pc[t] = "AwaitHook" /\ CanRun(t)
    /\ IF ok
       THEN /\ hook' = [hook EXCEPT ![t] = "active"]
            /\ pc' = [pc EXCEPT ![t] = "Listening"]
            /\ UNCHANGED <<failure, pid, inPoll, event_rx, closed, delivered,
                           submitted, call, results, chans>>
       ELSE /\ pc' = [pc EXCEPT ![t] = "Terminated"]
            /\ failure' = [failure EXCEPT ![t] = "RegistrationFailure"]
            /\ DropFuture(t)
            /\ UNCHANGED hook
    /\ UNCHANGED <<lifecycleVars, aborted, registered, unhooks, sent,
                   hostQueue, invocations>>

\* a fresh oneshot channel for one JsCallback::call (lib.rs:187); a rejected
\* try_send drops the closure, and with it tx
NewChan(arg, accepted) ==
    [arg |-> arg,
     fate |-> IF accepted THEN "queued" ELSE "rejected",
     tx |-> IF accepted THEN "alive" ELSE "dropped",
     value |-> "", rx |-> "waiting"]

\* a bridge that keeps one channel and uses it for every call
SharedChan(cs) == IF cs = <<>> THEN 1 ELSE Len(cs)

\* oneshot::channel() makes a channel of its own for each call (lib.rs:187)
FreshChan(cs) == Len(cs) + 1

\* the table of channels with channel c set to ch
WithChan(cs, c, ch) ==
    IF c > Len(cs) THEN Append(cs, ch) ELSE [cs EXCEPT ![c] = ch]

\* a loop without the object_type() test
ForwardsAll(rec) == TRUE

\* what the loop does with a record taken from the stream (lib.rs:114)
Forwards(rec) == IsWindow(rec)

\* the record event_rx.recv() yields: the oldest one waiting (lib.rs:113)
NextRecord(q) == Head(q)

\* lib.rs:113-122, 187-204: event_rx.recv() yields a record; a window record
\* is rendered and handed to JsCallback::call, which creates the oneshot
\* channel, try_sends the closure and awaits rx
RecvSome(t, accepted) ==
    /\ pc[t] = "Listening" /\ CanRun(t)
    /\ event_rx[t] # <<>>
    /\ LET rec == NextRecord(event_rx[t])
           c == FreshChan(chans)
           arg == WindowId(rec) IN
        /\ event_rx' = [event_rx EXCEPT ![t] = Tail(@)]
        /\ IF Forwards(rec)
           THEN /\ chans' = WithChan(chans, c, NewChan(arg, accepted))
                /\ hostQueue' =
                      IF accepted
                      THEN Append(hostQueue, [chan |-> c, owner |-> t, arg |-> arg])
                      ELSE hostQueue
                /\ submitted' = [submitted EXCEPT ![t] = Append(@, arg)]
                /\ call' = [call EXCEPT ![t] = c]
                /\ pc' = [pc EXCEPT ![t] = "AwaitReply"]
           ELSE /\ accepted
                /\ UNCHANGED <<chans, hostQueue, submitted, call, pc>>
    /\ UNCHANGED <<lifecycleVars, aborted, inPoll, failure, pid, results,
                   hookVars, closed, delivered, sent, invocations>>

\* the Result rx.await yields for a channel: Ok(value) or Err(RecvError)
RecvResult(ch) ==
    IF ch.tx = "sent" THEN [ok |-> TRUE, value |-> ch.value]
    ELSE [ok |-> FALSE, value |-> "RecvError"]

\* where the task goes with the Result of the call (lib.rs:134-137): an Err
\* is printed with println! and the loop goes on; println! panics when
\* stdout cannot be written, which ends the task
AfterResult(res, printed) ==
    IF res.ok \/ printed THEN "Listening" ELSE "Terminated"

\* lib.rs:204, 134-137: rx.await resolves once a value was sent or tx was
\* dropped; the match prints an Err
Resolve(t, printed) ==
    /\ pc[t] = "AwaitReply" /\ CanRun(t)
    /\ chans[call[t]].tx # "alive"
    /\ RecvResult(chans[call[t]]).ok => printed
    /\ chans' = Freed(chans, call[t], [chans[call[t]] EXCEPT !.rx = "received"])
    /\ call' = [call EXCEPT ![t] = NoChan]
    /\ pc' = [pc EXCEPT ![t] = AfterResult(RecvResult(chans[call[t]]), printed)]
    /\ IF AfterResult(RecvResult(chans[call[t]]), printed) = "Listening"
       THEN /\ results' = [results EXCEPT ![t] = RecvResult(chans[call[t]])]
            /\ UNCHANGED <<failure, hook, pid, inPoll, submitted, event_rx,
                           closed, delivered>>
       ELSE /\ failure' = [failure EXCEPT ![t] = "PrintFailure"]
            /\ hook' = [hook EXCEPT ![t] = "dropped"]
            /\ DropLocals(t)
    /\ UNCHANGED <<lifecycleVars, aborted, registered, unhooks, sent,
                   hostQueue, invocations>>

\* a task that returns after the loop and lets the hook go out of scope
UnhookSkipped(n) == n

\* the calls of hook.unhook() after the one made at loop exit (lib.rs:143)
UnhookCalled(n) == n + 1

\* lib.rs:113, 143: recv() yields None once the stream is closed and drained;
\* the loop ends and hook.unhook() is awaited
RecvNone(t) ==
    /\ pc[t] = "Listening" /\ CanRun(t)
    /\ event_rx[t] = <<>> /\ closed[t]
    /\ pc' = [pc EXCEPT ![t] = "Unregistering"]
    /\ unhooks' = [unhooks EXCEPT ![t] = UnhookCalled(@)]
    /\ UNCHANGED <<lifecycleVars, aborted, inPoll, failure, pid, call,
                   submitted, results, hook, registered, streamVars, hostVars>>

\* lib.rs:143: unhook().await.unwrap() returns, or panics on Err
Unhooked(t, ok) ==
    /\ pc[t] = "Unregistering" /\ CanRun(t)
    /\ pc' = [pc EXCEPT ![t] = "Terminated"]
    /\ IF ok
       THEN /\ hook' = [hook EXCEPT ![t] = "released"]
            /\ UNCHANGED failure
       ELSE /\ failure' = [failure EXCEPT ![t] = "UnregisterFailure"]
            /\ UNCHANGED hook
    /\ DropFuture(t)
    /\ UNCHANGED <<lifecycleVars, aborted, registered, unhooks, sent,
                   hostQueue, invocations>>

\* the runtime drops the future of an aborted task once it is parked at an
\* await: its locals (event_rx, rx, hook) are dropped, no line of listen runs
Cancel(t) ==
    /\ pc[t] \in Suspended /\ aborted[t]
    /\ pc' = [pc EXCEPT ![t] = "Cancelled"]
    /\ hook' = [hook EXCEPT ![t] = IF @ = "active" THEN "dropped" ELSE @]
    /\ DropFuture(t)
    /\ UNCHANGED <<lifecycleVars, aborted, failure, registered, unhooks, sent,
                   hostQueue, invocations>>

\* ------------------------------------------------------- native event source

\* the hook's thread holds event_tx and the task's future, which holds
\* event_rx, has not been dropped
Delivering(t) == hook[t] = "active" /\ pc[t] \in Suspended /\ ~closed[t]

\* the hook's thread sends one record on event_tx
NativeEvent(t, rec) ==
    /\ Delivering(t)
    /\ sent < MaxEvents
    /\ event_rx' = [event_rx EXCEPT ![t] = Append(@, rec)]
    /\ delivered' = [delivered EXCEPT ![t] = Append(@, rec)]
    /\ sent' = sent + 1
    /\ UNCHANGED <<lifecycleVars, aborted, taskVars, hookVars, closed,
                   hostVars>>

\* the hook's thread ends and drops event_tx
ProducerClose(t) ==
    /\ Delivering(t)
    /\ closed' = [closed EXCEPT ![t] = TRUE]
    /\ UNCHANGED <<lifecycleVars, aborted, taskVars, hookVars, event_rx,
                   delivered, sent, hostVars>>

\* ------------------------------------------------- host execution context

\* tx.send(value): stored unless the receiver is gone (the Err is ignored)
Send(ch, v) ==
    IF ch.rx = "waiting" THEN [ch EXCEPT !.tx = "sent", !.value = v]
    ELSE [ch EXCEPT !.tx = "dropped"]

\* a closure that sends whatever the callback returned, coerced to a string
AfterRunCoerced(ch, outcome, v) ==
    IF outcome = "throw" THEN [ch EXCEPT !.tx = "dropped", !.fate = "threw"]
    ELSE [Send(ch, v) EXCEPT
             !.fate = IF outcome = "string" THEN "returned" ELSE "nonstring"]

\* what running the closure does to its channel: a returned string is sent
\* on tx, a throw or a non-string return leaves the closure early (the `?`
\* of lib.rs:195-196) and drops tx
AfterRun(ch, outcome, v) ==
    IF outcome = "string" THEN [Send(ch, v) EXCEPT !.fate = "returned"]
    ELSE [ch EXCEPT !.tx = "dropped",
                    !.fate = IF outcome = "throw" THEN "threw" ELSE "nonstring"]

\* lib.rs:189-202: the host runs the closure at the head of its queue and the
\* callback is invoked with the argument
HostRun(outcome, v) ==
    /\ hostQueue # <<>>
    /\ invocations' = invocations + 1
    /\ LET c == Head(hostQueue).chan IN
        chans' = Freed(chans, c, AfterRun(chans[c], outcome, v))
    /\ hostQueue' = Tail(hostQueue)
    /\ UNCHANGED <<lifecycleVars, aborted, taskVars, hookVars, streamVars>>

\* the host context shuts down and drops a queued closure without running it
HostDrop ==
    /\ hostQueue # <<>>
    /\ LET c == Head(hostQueue).chan IN
        chans' = Freed(chans, c, [chans[c] EXCEPT !.tx = "dropped",
                                                  !.fate = "dropped"])
    /\ hostQueue' = Tail(hostQueue)
    /\ UNCHANGED <<lifecycleVars, aborted, taskVars, hookVars, streamVars,
                   invocations>>

\* ------------------------------------------------------------ specification
Next ==
    \/ \E p \in Pids : Start(p)
    \/ Stop
    \/ \E t \in Tasks : CallHook(t)
    \/ \E t \in Tasks, ok \in BOOLEAN : Register(t, ok)
    \/ \E t \in Tasks, accepted \in BOOLEAN : RecvSome(t, accepted)
    \/ \E t \in Tasks, printed \in BOOLEAN : Resolve(t, printed)
    \/ \E t \in Tasks : RecvNone(t)
    \/ \E t \in Tasks, ok \in BOOLEAN : Unhooked(t, ok)
    \/ \E t \in Tasks : Cancel(t)
    \/ \E t \in Tasks, rec \in Records : NativeEvent(t, rec)
    \/ \E t \in Tasks : ProducerClose(t)
    \/ \E v \in Replies, outcome \in Outcomes : HostRun(outcome, v)
    \/ HostDrop

Spec == Init /\ [][Next]_vars

\* the tokio runtime polls a task whose await can complete, and drops the
\* future of an aborted one
TaskStep(t) ==
    \/ CallHook(t)
    \/ \E ok \in BOOLEAN : Register(t, ok)
    \/ \E accepted \in BOOLEAN : RecvSome(t, accepted)
    \/ \E printed \in BOOLEAN : Resolve(t, printed)
    \/ RecvNone(t)
    \/ \E ok \in BOOLEAN : Unhooked(t, ok)
    \/ Cancel(t)

TaskFairness == \A t \in Tasks : WF_vars(TaskStep(t))

\* the runtime schedules; nothing is assumed of the host
TaskFairSpec == Spec /\ TaskFairness

\* the host's event loop takes the closure at the head of its queue, to run
\* it or to drop it
HostStep ==
    \/ \E v \in Replies, outcome \in Outcomes : HostRun(outcome, v)
    \/ HostDrop

HostFairness == WF_vars(HostStep)

\* the runtime schedules and the host eventually runs or drops every closure
FairSpec == Spec /\ TaskFairness /\ HostFairness

\* ------------------------------------------ rendering of window identifiers

\* the pointer with every bit set, and the largest one with the top bit clear
MaxPtr == [i \in 1..Limbs |-> LimbBase - 1]
MaxPositive == [MaxPtr EXCEPT ![1] = LimbBase \div 2 - 1]

\* the pointer n below h, for n up to the last limb of h
Below(h, n) == [h EXCEPT ![Limbs] = @ - n]

Offsets == 0..MaxOffset

\* raw HWND values around zero, on both sides of the sign boundary and at
\* the top of the address range; the one the documentation names; values
\* with bit 15 or bit 30 set
RenderHandles ==
    {Ptr(n) : n \in Offsets}
        \cup {Ptr(12345), Ptr(32769), Ptr(65535), Ptr(2147483647)}
        \cup {Below(MaxPositive, n) : n \in Offsets}
        \cup {HighPtr(n) : n \in Offsets}
        \cup {Below(MaxPtr, n) : n \in Offsets}

RenderRecords == {Rec(tag, h) : tag \in Tags, h \in RenderHandles}

\* one or two records wait in the stream of a task
RenderQueues ==
    {<<r>> : r \in RenderRecords}
        \cup {<<r1, r2>> : r1 \in {Rec("Window", h) : h \in Handles},
                           r2 \in RenderRecords}

\* the listener after new() and start(p, cb): the task has registered its
\* hook and the stream has delivered the records of q
RenderInit ==
    \E p \in Pids, q \in RenderQueues :
        /\ join_handle = 1
        /\ spawned = 1
        /\ lastOp = "start"
        /\ pc = [t \in Tasks |-> IF t = 1 THEN "Listening" ELSE "Unspawned"]
        /\ aborted = [t \in Tasks |-> FALSE]
        /\ inPoll = [t \in Tasks |-> FALSE]
        /\ failure = [t \in Tasks |-> "none"]
        /\ pid = [t \in Tasks |-> 0]
        /\ hook = [t \in Tasks |-> IF t = 1 THEN "active" ELSE "none"]
        /\ registered = BuildFilter(p)
        /\ unhooks = [t \in Tasks |-> 0]
        /\ event_rx = [t \in Tasks |-> IF t = 1 THEN q ELSE <<>>]
        /\ closed = [t \in Tasks |-> FALSE]
        /\ delivered = [t \in Tasks |-> IF t = 1 THEN q ELSE <<>>]
        /\ submitted = [t \in Tasks |-> <<>>]
        /\ sent = Len(q)
        /\ call = [t \in Tasks |-> NoChan]
        /\ results = [t \in Tasks |-> NoResult]
        /\ chans = <<>>
        /\ hostQueue = <<>>
        /\ invocations = 0

\* the task drains its stream and the host answers
RenderNext ==
    \/ \E accepted \in BOOLEAN : RecvSome(1, accepted)
    \/ \E v \in Replies, outcome \in Outcomes : HostRun(outcome, v)
    \/ \E printed \in BOOLEAN : Resolve(1, printed)

RenderSpec == RenderInit /\ [][RenderNext]_vars

\* ------------------------------------------------------------------ claims

Spawned == 1..spawned
Alive(t) == pc[t] \in Suspended /\ ~aborted[t]

\* C1: after any sequence of start and stop calls the listener references
\* exactly the task the last start spawned, or no task if the last call was
\* stop, and every task it referenced before has had abort called on it.
C1_Exclusivity ==
    /\ lastOp = "start" => spawned > 0 /\ join_handle = spawned
    /\ lastOp = "stop" => join_handle = NoTask
    /\ lastOp = "new" => join_handle = NoTask /\ spawned = 0
    /\ \A t \in Spawned : t # join_handle => aborted[t]
    /\ \A t \in Tasks \ Spawned : pc[t] = "Unspawned" /\ ~aborted[t]

\* a start has replaced a task that was still running
C1_Witness ==
    /\ lastOp = "start" /\ join_handle = 2
    /\ aborted[1] /\ pc[1] \in Suspended /\ ~aborted[2]

\* the host runs a closure of task t: the callback is invoked
Invokes(t) ==
    /\ hostQueue # <<>> /\ Head(hostQueue).owner = t
    /\ invocations' = invocations + 1

\* C2: once stop, or a start that replaces it, has aborted a task, the host
\* observes no further callback invocation from that task.
C2_NoCallbackAfterCancel ==
    [][\A t \in Tasks : aborted[t] => ~Invokes(t)]_vars

\* C3: for a task that has not been cancelled, whether it still runs or has
\* ended, the arguments given to the host, followed by the identifiers of
\* the window records still waiting, are the identifiers of the window
\* records the stream delivered, in order: none is lost or duplicated.
C3_OrderPreserved ==
    \A t \in Tasks :
        ~aborted[t] =>
            submitted[t] \o WindowIds(event_rx[t]) = WindowIds(delivered[t])

\* C4: at most one callback job of the listener is waiting in the host
\* context at any moment, across start and stop calls.
C4_OneJobOutstanding == Len(hostQueue) <= 1

\* task t takes a record from its stream
Takes(t) ==
    /\ pc[t] \in Suspended /\ pc'[t] \in Suspended
    /\ Len(event_rx'[t]) < Len(event_rx[t])

\* C5: taking a record whose object type is not Window creates no channel,
\* submits no closure and invokes no callback; the task stays in Listening
\* and the records behind it stay in the queue, in order.
C5_NonWindowDropped ==
    [][\A t \in Tasks :
          Takes(t) /\ ~IsWindow(Head(event_rx[t])) =>
              /\ pc[t] = "Listening" /\ pc'[t] = "Listening"
              /\ event_rx'[t] = Tail(event_rx[t])
              /\ UNCHANGED <<chans, hostQueue, submitted, call, invocations>>]_vars

\* a Caret record was taken and dropped; the window record behind it waits
C5_Witness ==
    /\ delivered[1] = <<Rec("Caret", Ptr(12345)), Rec("Window", Ptr(12345))>>
    /\ event_rx[1] = <<Rec("Window", Ptr(12345))>>
    /\ pc[1] = "Listening" /\ submitted[1] = <<>> /\ chans = <<>>

\* rx.await of the pending call of task t yields its Result
Resolves(t) ==
    pc[t] = "AwaitReply" /\ pc'[t] \notin {"AwaitReply", "Cancelled"}

Failed == [ok |-> FALSE, value |-> "RecvError"]

\* C6: when a call resolves with RecvError (tx was dropped without a reply)
\* the task does not end: it is back in Listening with its hook and its
\* queue intact, and whenever a window record waits after a failed call the
\* task can take it and submit its closure.
C6_DeliveryFailureResilience ==
    /\ [][\A t \in Tasks :
            Resolves(t) /\ chans[call[t]].tx = "dropped" =>
                /\ pc'[t] = "Listening" /\ failure'[t] = "none"
                /\ results'[t] = Failed
                /\ hook'[t] = hook[t] /\ event_rx'[t] = event_rx[t]]_vars
    /\ [](\A t \in Tasks :
            (/\ Alive(t) /\ results[t] = Failed /\ pc[t] = "Listening"
             /\ event_rx[t] # <<>> /\ IsWindow(Head(event_rx[t]))) =>
                ENABLED (/\ RecvSome(t, TRUE)
                         /\ Len(hostQueue') = Len(hostQueue) + 1))

NoReply == {"rejected", "dropped", "threw", "nonstring"}

\* C7: a call yields Err exactly when its closure sent no reply (try_send
\* rejected it, the host dropped it, the callback threw or returned a
\* non-string) and Ok with the returned string exactly when the callback
\* returned a string; in each of these cases, a rejected submission included,
\* the caller is awaiting the channel until it resolves.
C7_BridgeResult ==
    /\ [](\A c \in 1..Len(chans) :
            /\ chans[c].fate \in NoReply => chans[c].tx = "dropped"
            /\ chans[c].fate = "returned" =>
                   chans[c].tx = "sent" /\ chans[c].value \in Replies
            /\ chans[c].fate = "queued" => chans[c].tx = "alive"
            /\ chans[c].fate \in NoReply \cup {"returned"} =>
                   \E t \in Tasks : call[t] = c /\ pc[t] = "AwaitReply")
    /\ [][\A t \in Tasks :
            Resolves(t) =>
                /\ pc'[t] = "Listening" =>
                       /\ results'[t].ok <=> chans[call[t]].fate = "returned"
                       /\ results'[t].ok =>
                              results'[t].value = chans[call[t]].value
                       /\ ~results'[t].ok =>
                              /\ results'[t] = Failed
                              /\ chans[call[t]].fate \in NoReply
                /\ pc'[t] # "Listening" =>
                       /\ failure'[t] = "PrintFailure"
                       /\ chans[call[t]].fate \in NoReply]_vars

\* one call has returned the callback's string; the next submission was
\* rejected and the task awaits its channel all the same
C7_Witness ==
    /\ results[1] = [ok |-> TRUE, value |-> "ack"]
    /\ pc[1] = "AwaitReply" /\ chans[call[1]].fate = "rejected"

JobsOf(t) == {i \in 1..Len(hostQueue) : hostQueue[i].owner = t}

\* C8: stop can always be called and returns, and so can start, in whatever
\* state the tasks are: registering, failed, awaiting a reply that never
\* comes.  The Option is the task of the last start or None and every other
\* task is aborted.  A task whose registration failed has no hook and no
\* closure in the host, and a start spawns a fresh task at Registering.
C8_StartStopNeverFail ==
    /\ [](/\ ENABLED Stop
          /\ spawned < MaxTasks => \A p \in Pids : ENABLED Start(p)
          /\ join_handle \in {NoTask, spawned}
          /\ \A t \in Spawned :
                /\ t # join_handle => aborted[t]
                /\ failure[t] = "RegistrationFailure" =>
                       /\ pc[t] = "Terminated" /\ hook[t] = "none"
                       /\ JobsOf(t) = {} /\ call[t] = NoChan)
    /\ [][spawned' # spawned =>
            /\ spawned' = spawned + 1 /\ join_handle' = spawned'
            /\ pc'[spawned'] = "Registering" /\ hook'[spawned'] = "none"
            /\ failure'[spawned'] = "none" /\ ~aborted'[spawned']]_vars

\* the first task failed to register; start was called again and the new
\* task has registered and is delivering
C8_Witness ==
    /\ failure[1] = "RegistrationFailure" /\ join_handle = 2
    /\ hook[2] = "active" /\ pc[2] = "AwaitReply" /\ JobsOf(2) # {}

\* C9: at most one WinEvent hook registered for the listener is active.
C9_OneActiveSubscription ==
    Cardinality({t \in Tasks : hook[t] = "active"}) <= 1

\* everything but the record of the last call
observable == <<join_handle, spawned, pc, aborted, inPoll, failure, pid, hook,
                registered, unhooks, event_rx, closed, delivered, submitted,
                sent, call, results, chans, hostQueue, invocations>>

\* C10: with no task in the Option, stop returns and changes nothing: no
\* task is aborted, no hook registered or released, no closure submitted.
C10_StopWithoutTask ==
    join_handle = NoTask =>
        /\ ENABLED Stop
        /\ ~ENABLED (Stop /\ observable' # observable)

\* stop was called with no task left, while an aborted task is still to be
\* cancelled and its closure waits in the host
C10_Witness ==
    /\ lastOp = "stop" /\ join_handle = NoTask /\ spawned = 2
    /\ hostQueue # <<>> /\ \E t \in Tasks : pc[t] \in Suspended

\* task t hands one more argument to JsCallback::call
Submits(t) == Len(submitted'[t]) = Len(submitted[t]) + 1

LastArg(t) == submitted'[t][Len(submitted'[t])]

\* C11: the argument of a window record is the decimal text of its handle
\* read as a signed pointer-width integer, computed from that record alone:
\* 12345 gives "12345", no handle gives "0", a handle with the top bit set
\* gives "-" and the magnitude of its two's complement, a handle with a
\* lower bit set stays positive, and the same text is what the oneshot
\* channel and the queued closure carry.
C11_IdentifierRendering ==
    [][\A t \in Tasks :
          Submits(t) =>
              LET h == Head(event_rx[t]).handle
                  arg == LastArg(t) IN
                  /\ IsWindow(Head(event_rx[t]))
                  /\ chans'[call'[t]].arg = arg
                  /\ Len(hostQueue') > Len(hostQueue) =>
                         hostQueue'[Len(hostQueue')].arg = arg
                  /\ h = Ptr(12345) => arg = "12345"
                  /\ h = NoHandle => arg = "0"
                  /\ h = Ptr(32769) => arg = "32769"
                  /\ h = Ptr(65535) => arg = "65535"
                  /\ h = Ptr(2147483647) => arg = "2147483647"
                  /\ h = MaxPositive => arg = "9223372036854775807"
                  /\ h = HighPtr(0) => arg = "-9223372036854775808"
                  /\ h = HighPtr(1) => arg = "-9223372036854775807"
                  /\ h = MaxPtr => arg = "-1"
                  /\ \A n \in Offsets :
                         /\ h = Ptr(n) => arg = ToString(n)
                         /\ h = Below(MaxPositive, n) =>
                                arg = "922337203685477" \o ToString(5807 - n)
                         /\ h = HighPtr(n) =>
                                arg = "-922337203685477" \o ToString(5808 - n)
                         /\ h = Below(MaxPtr, n) =>
                                arg = "-" \o ToString(n + 1)]_vars

\* after a first window record, a record whose handle has the top bit set
\* was rendered as a negative number and its closure waits in the host
C11_Witness ==
    /\ delivered[1] = <<Rec("Window", Ptr(12345)), Rec("Window", HighPtr(1))>>
    /\ submitted[1] = <<"12345", "-9223372036854775807">>
    /\ hostQueue # <<>>
    /\ hostQueue[Len(hostQueue)].arg = "-9223372036854775807"

\* task t passes its filter to WindowEventHook::hook
PassesFilter(t) == pc[t] = "Registering" /\ pc'[t] = "AwaitHook"

\* C12: start(p) hands p to the task it spawns and the task keeps it until
\* its first poll passes the filter built from it; a task passes a filter
\* once, and the filter selects SYSTEM_FOREGROUND and is scoped to process p
\* when p is not zero, to no process when p is zero; no other step passes a
\* filter.
C12_FilterScope ==
    /\ [](spawned < MaxTasks =>
              \A p \in Pids :
                  /\ ENABLED (Start(p) /\ pid'[spawned + 1] = p)
                  /\ ~ENABLED (Start(p) /\ pid'[spawned + 1] # p))
    /\ [][\A t \in Tasks :
            /\ (pc[t] = "Registering" /\ pc'[t] = "Registering") =>
                   pid'[t] = pid[t]
            /\ pc'[t] = "Registering" => pc[t] \in {"Unspawned", "Registering"}
            /\ PassesFilter(t) =>
                   /\ registered'.event = "SYSTEM_FOREGROUND"
                   /\ pid[t] # 0 => registered'.process = pid[t]
                   /\ pid[t] = 0 => registered'.process = NoPid]_vars
    /\ [][registered' # registered => \E t \in Tasks : PassesFilter(t)]_vars

\* a task started with process id 7 has registered, scoped to process 7
C12_Witness ==
    /\ spawned = 1 /\ hook[1] = "active" /\ pc[1] = "Listening"
    /\ registered = [event |-> "SYSTEM_FOREGROUND", process |-> 7]

\* recv() of task t is about to yield None
Drained(t) == pc[t] = "Listening" /\ closed[t] /\ event_rx[t] = <<>>

Exhausted(t) == Alive(t) /\ Drained(t)

\* C13: a task whose stream is exhausted and that is not aborted leaves the
\* loop, calls unhook and terminates.  unhook is called at most once per
\* task, by the task owning the hook, in Listening with the stream closed
\* and drained; a task that has left the loop has called unhook; the hook
\* is released only by its own task in Unregistering.
C13_UnregisterOnExhaustion ==
    /\ [](\A t \in Tasks :
              /\ unhooks[t] <= 1
              /\ pc[t] = "Unregistering" =>
                     unhooks[t] = 1 /\ hook[t] = "active")
    /\ [][\A t \in Tasks :
            /\ unhooks'[t] # unhooks[t] =>
                   /\ Drained(t) /\ hook[t] = "active"
                   /\ unhooks'[t] = unhooks[t] + 1
                   /\ pc'[t] = "Unregistering"
            /\ (hook[t] = "active" /\ hook'[t] = "released") =>
                   /\ pc[t] = "Unregistering"
                   /\ unhooks[t] = 1 /\ pc'[t] = "Terminated"]_vars
    /\ \A t \in Tasks :
           Exhausted(t) ~>
               (aborted[t] \/ (pc[t] = "Terminated" /\ unhooks[t] = 1))

\* the task delivered a record, its stream ended, it unhooked and returned
C13_Witness ==
    /\ pc[1] = "Terminated" /\ ~aborted[1] /\ failure[1] = "none"
    /\ unhooks[1] = 1 /\ hook[1] = "released" /\ invocations = 1

\* the state of the task's state machine: the first poll and the await of
\* hook() are Registering, awaiting the reply of a call is part of Listening
TaskState(t) ==
    IF pc[t] = "AwaitReply" THEN "Listening"
    ELSE IF pc[t] = "AwaitHook" THEN "Registering" ELSE pc[t]

TaskStates ==
    {"Unspawned", "Registering", "Listening", "Unregistering", "Terminated",
     "Cancelled"}

Moves(t) == <<TaskState(t), TaskState(t)'>>

\* the transitions of the state machine as documented
Documented ==
    {<<"Unspawned", "Registering">>, <<"Registering", "Listening">>,
     <<"Listening", "Unregistering">>, <<"Unregistering", "Terminated">>}
        \cup {<<st, "Cancelled">> :
                 st \in {"Registering", "Listening", "Unregistering"}}

\* C14 (as stated): a task starts in Registering and moves only along
\* Registering -> Listening, Listening -> Listening, Listening ->
\* Unregistering, Unregistering -> Terminated and -> Cancelled, also when
\* registration or unregistration fails.
C14_StateMachine ==
    [][\A t \in Tasks :
          TaskState(t)' # TaskState(t) => Moves(t) \in Documented]_vars

\* C14 (amended): as above, with two more transitions: a task whose
\* registration fails goes from Registering to Terminated, and a task that
\* panics while printing a failed call goes from Listening to Terminated.
\* Terminated and Cancelled are absorbing, -> Cancelled is taken only by an
\* aborted task, and a task that was parked when it was aborted takes no
\* other step, so it never enters Unregistering.
C14_StateMachineWithFailure ==
    /\ [](\A t \in Tasks :
              /\ TaskState(t) \in TaskStates
              /\ t > spawned <=> pc[t] = "Unspawned")
    /\ [][\A t \in Tasks :
            /\ TaskState(t)' # TaskState(t) =>
                   \/ Moves(t) \in Documented
                   \/ /\ Moves(t) = <<"Registering", "Terminated">>
                      /\ failure'[t] = "RegistrationFailure"
                   \/ /\ Moves(t) = <<"Listening", "Terminated">>
                      /\ failure'[t] = "PrintFailure"
            /\ Moves(t) = <<"Registering", "Listening">> =>
                   failure'[t] = "none" /\ hook'[t] = "active"
            /\ pc[t] \in Finished => pc'[t] = pc[t]
            /\ pc'[t] = "Cancelled" /\ pc[t] # "Cancelled" => aborted[t]
            /\ (aborted[t] /\ ~inPoll[t]) =>
                   pc'[t] \in {pc[t], "Cancelled"}]_vars

\* one task ended on a failed registration, the next one was cancelled while
\* it held an active hook
C14_Witness ==
    /\ pc[1] = "Terminated" /\ failure[1] = "RegistrationFailure"
    /\ unhooks[1] = 0
    /\ pc[2] = "Cancelled" /\ hook[2] = "dropped"

QueueIndex == 1..Len(hostQueue)

\* C15: each call creates one oneshot channel, awaited by that call only;
\* its closure is queued at most once and so the callback runs at most once
\* for it; a channel that has been answered (a value sent or tx dropped) is
\* never answered again; the call reads the channel it created, whose
\* argument is the one it submitted; after the call resolves the channel is
\* gone.
C15_SingleUseChannel ==
    /\ [](/\ \A t \in Tasks :
                /\ pc[t] = "AwaitReply" <=> call[t] # NoChan
                /\ call[t] # NoChan =>
                       /\ call[t] \in 1..Len(chans)
                       /\ chans[call[t]].rx = "waiting"
                       /\ ~aborted[t] =>
                              chans[call[t]].arg = submitted[t][Len(submitted[t])]
                       /\ \A u \in Tasks \ {t} : call[u] # call[t]
          /\ \A c \in 1..Len(chans) :
                chans[c].rx = "waiting" => \E t \in Tasks : call[t] = c
          /\ \A i \in QueueIndex :
                LET e == hostQueue[i] IN
                    /\ e.chan \in 1..Len(chans)
                    /\ chans[e.chan].fate = "queued" /\ chans[e.chan].tx = "alive"
                    /\ chans[e.chan].arg = e.arg
                    /\ chans[e.chan].rx = "waiting" => call[e.owner] = e.chan
                    /\ \A j \in QueueIndex \ {i} : hostQueue[j].chan # e.chan)
    /\ [][/\ Len(chans') > Len(chans) =>
                /\ Len(chans') = Len(chans) + 1
                /\ \A c \in 1..Len(chans) : chans'[c] = chans[c]
                /\ \E t \in Tasks : call[t] = NoChan /\ call'[t] = Len(chans')
          /\ invocations' # invocations =>
                /\ invocations' = invocations + 1
                /\ hostQueue # <<>> /\ hostQueue' = Tail(hostQueue)
          /\ \A c \in 1..Len(chans) :
                /\ chans[c].tx # "alive" =>
                       \/ c > Len(chans') \/ chans'[c] = Gone
                       \/ /\ chans'[c].tx = chans[c].tx
                          /\ chans'[c].value = chans[c].value
                          /\ chans'[c].arg = chans[c].arg
                /\ (chans[c].tx = "alive" /\ c <= Len(chans')
                        /\ chans'[c].tx = "sent") =>
                       /\ hostQueue # <<>> /\ Head(hostQueue).chan = c
                       /\ invocations' = invocations + 1
          /\ \A t \in Tasks :
                Resolves(t) =>
                    /\ pc'[t] = "Listening" =>
                           results'[t] = RecvResult(chans[call[t]])
                    /\ call'[t] = NoChan
                    /\ call[t] > Len(chans') \/ chans'[call[t]] = Gone]_vars

\* the first call of a task was answered with the callback's string and is
\* gone; its second call waits on a channel of its own, its closure queued
C15_Witness ==
    /\ results[1] = [ok |-> TRUE, value |-> "ack"] /\ invocations = 1
    /\ call[1] # NoChan /\ chans[call[1]].fate = "queued"
    /\ Len(submitted[1]) = 2 /\ Len(hostQueue) = 1

\* the listener references a task that has already returned or panicked
RefersToDead == join_handle # NoTask /\ pc[join_handle] = "Terminated"

\* what the tasks, the hooks and the host hold
effects == <<spawned, pc, inPoll, failure, hook, registered, unhooks, event_rx,
             closed, delivered, submitted, sent, call, results, chans,
             hostQueue, invocations>>

\* C16: while the listener references a terminated task, stop returns and
\* leaves no task, start returns and leaves exactly the new task, and
\* neither changes anything else but the abort mark of the dead task.  A
\* terminated task has no closure in the host and no pending call, calls
\* unhook no more and never leaves Terminated, aborted or not.
C16_AbortTerminatedTask ==
    /\ [](RefersToDead =>
              /\ ENABLED Stop
              /\ ~ENABLED (Stop /\ (join_handle' # NoTask \/ effects' # effects))
              /\ spawned < MaxTasks =>
                     \A p \in Pids :
                         /\ ENABLED Start(p)
                         /\ ~ENABLED (/\ Start(p)
                                      /\ \/ join_handle' # spawned + 1
                                         \/ pc'[join_handle] # "Terminated"
                                         \/ pc'[spawned + 1] # "Registering"
                                         \/ <<hookVars, hostVars, failure>>'
                                                # <<hookVars, hostVars, failure>>))
    /\ [](\A t \in Tasks :
              pc[t] = "Terminated" =>
                  /\ JobsOf(t) = {} /\ call[t] = NoChan
                  /\ unhooks[t] <= 1 /\ ~inPoll[t])
    /\ [][\A t \in Tasks :
            pc[t] = "Terminated" =>
                /\ pc'[t] = "Terminated"
                /\ unhooks'[t] = unhooks[t] /\ hook'[t] = hook[t]
                /\ failure'[t] = failure[t] /\ ~Invokes(t)]_vars

\* a task ended by stream exhaustion after unhooking, and a task whose
\* registration failed, were each replaced or stopped afterwards
C16_Witness ==
    /\ pc[1] = "Terminated" /\ aborted[1] /\ unhooks[1] = 1
    /\ pc[2] = "Terminated" /\ aborted[2]
    /\ failure[2] = "RegistrationFailure"
    /\ lastOp = "stop" /\ join_handle = NoTask

Counts == 1..MaxEvents

\* C17: when the host eventually runs or drops every closure, every call of a
\* task that is not aborted resolves, and every window record delivered to
\* such a task is submitted.  There is no timeout: a task awaiting a channel
\* whose tx is alive can take no step, and tx stops being alive only when
\* the host runs or drops the closure at the head of its queue.
C17_DeliveryLiveness ==
    /\ \A t \in Tasks :
           (Alive(t) /\ pc[t] = "AwaitReply") ~>
               (aborted[t] \/ pc[t] # "AwaitReply")
    /\ \A t \in Tasks, k \in Counts :
           (Alive(t) /\ Len(WindowIds(delivered[t])) >= k) ~>
               (aborted[t] \/ Len(submitted[t]) >= k)
    /\ [](\A t \in Tasks :
              (Alive(t) /\ pc[t] = "AwaitReply"
                  /\ chans[call[t]].tx = "alive") => ~ENABLED TaskStep(t))
    /\ [][\A c \in 1..Len(chans) :
            (chans[c].tx = "alive"
                /\ (c > Len(chans') \/ chans'[c].tx # "alive")) =>
                /\ hostQueue # <<>> /\ Head(hostQueue).chan = c
                /\ hostQueue' = Tail(hostQueue)]_vars

====
